---------------------------- MODULE Spec2Model ----------------------------
(***************************************************************************)
(* cluster::node::local_monitor (src/v/cluster/node/local_monitor.cc).     *)
(*                                                                         *)
(* The monitor samples the capacity of the data directory, compares the    *)
(* free space with a floor derived from two configured thresholds, keeps   *)
(* the result in a cached local_state and writes rate-limited diagnostics. *)
(*                                                                         *)
(* update_state() is a coroutine.  It runs refresh_configuration() and the *)
(* start of get_disks() synchronously, may be suspended while the statvfs  *)
(* query is outstanding and again while it waits for the future of         *)
(* get_disks(), and then installs the snapshot and evaluates the alert in  *)
(* one synchronous stretch (no co_await between lines 45 and 51).          *)
(*                                                                         *)
(* Sizes are size_t values; every value of the model is far below 2^64.    *)
(* The two opaque fields of local_state (redpanda_version, uptime) are     *)
(* copied through by update_state and read by nothing here; they are left  *)
(* out of the snapshot record.                                             *)
(***************************************************************************)
EXTENDS Integers, Sequences, FiniteSets

\* ------------------------------------------------------------- bounds
\* The clock (ss::lowres_clock, in ticks) stops advancing at MaxTime.
MaxTime == 2
\* The interval of the rate limiter `despam_interval`, in ticks.
DespamInterval == 2

\* Values the two configured thresholds take.
Percents == {10, 30}
Bytes == {1, 6}

\* Values the fields of a struct statvfs take.
Bsizes == {4}
Frsizes == {2}
Blocks == {0, 10}
Bfree == {1, 3}

\* config::node().data_directory() and the path a test may set.
DataDirectory == "/data"
TestPath == "/test"

\* The callers of update_state(): Tasks may overlap, SerialTasks is the one
\* caller that starts a cycle only after its previous cycle has ended.
Tasks == {1, 2}
SerialTasks == {1}

Statvfs == [f_bsize : Bsizes, f_frsize : Frsizes, f_blocks : Blocks, f_bfree : Bfree]

\* _statvfs_for_test is an optional holding a std::function.  NoFunc is the
\* optional without a value, as it is until set_statvfs_for_test is called;
\* the setter always leaves a value in it.  The value is a provider, a
\* deterministic function of the path (TestFuncs), or the std::function that
\* holds no target (EmptyFunc), whose call throws std::bad_function_call.
NoFunc == "none"
EmptyFunc == "empty"
TestFuncs == {"fixed"}
CallTestFunc(func, path) ==
    IF path = TestPath
    THEN [f_bsize |-> 4, f_frsize |-> 2, f_blocks |-> 10, f_bfree |-> 1]
    ELSE [f_bsize |-> 4, f_frsize |-> 2, f_blocks |-> 10, f_bfree |-> 3]

VARIABLES
    cfg_percent,                        \* storage_space_alert_free_threshold_percent
    cfg_bytes,                          \* storage_space_alert_free_threshold_bytes
    last_free_space_percent_threshold,  \* the cached thresholds
    last_free_space_bytes_threshold,
    _state,                             \* the cached local_state
    _path_for_test,
    _statvfs_for_test,
    despam_next,                        \* despam_interval._next
    now,                                \* the clock
    crashed,                            \* a vassert has aborted the process
    pc,                                 \* where each update_state() call stands
    disks,                              \* each call's local `disks` (update_state)
    get_disks_path,                     \* the path each call queries, until it ends
    cyc,                                \* what each call has done so far (history)
    seen_percent,                       \* configuration at the start of the
    seen_bytes,                         \*   previous cycle (history)
    last_completed,                     \* snapshot of the last completed cycle (history)
    last_err                            \* time of the last error line, -1: none (history)

vars == << cfg_percent, cfg_bytes, last_free_space_percent_threshold,
           last_free_space_bytes_threshold, _state, _path_for_test,
           _statvfs_for_test, despam_next, now, crashed, pc, disks, get_disks_path, cyc,
           seen_percent, seen_bytes, last_completed, last_err >>

Min(a, b) == IF a <= b THEN a ELSE b

\* ------------------------------------------------- percent_factor * bytes
\* 2^k mod 100.
RECURSIVE Pow2Mod100(_)
Pow2Mod100(k) == IF k = 0 THEN 1 ELSE (2 * Pow2Mod100(k - 1)) % 100

\* The binary exponent of p/100: the least j with p * 2^j >= 100, so that
\* p/100 lies in [2^-j, 2^-(j-1)) and its 53-bit significand is
\* round(p * 2^(52+j) / 100).
RECURSIVE BinExp(_, _)
BinExp(p, j) == IF p * 2^j >= 100 THEN j ELSE BinExp(p, j + 1)

\* The remainder of p * 2^(52+j) by 100: what the division p / 100.0 (IEEE
\* double, round to nearest) has to round away.  It is never 50 for an
\* integer p in 1..100.
DivRemainder(p) == IF p = 0 THEN 0 ELSE (p * Pow2Mod100(52 + BinExp(p, 0))) % 100

\* `p / 100.0` is a double below the rational p/100 (rounded down).
FactorRoundedDown(p) == DivRemainder(p) > 0 /\ DivRemainder(p) < 50

\* size_t(percent_factor * bytes_available): the long double product of the
\* double p/100.0 and the size, truncated.  The factor is off by less than
\* 2^-53, so for the sizes of the model the product (exact in 64 bits of
\* significand) truncates to floor(p*n/100), except where p*n/100 is an
\* integer and the factor was rounded down: then it falls just short of it.
PercentOfBytes(p, n) ==
    LET q == (p * n) \div 100
        r == (p * n) % 100
    IN  IF r = 0 /\ q > 0 /\ FactorRoundedDown(p) THEN q - 1 ELSE q

\* The two limits taken from the configuration as it is when the disks are
\* evaluated, not from the cached thresholds.
minimum_free_by_bytes_and_percent_reads_config(bytes_available) ==
    << cfg_bytes, PercentOfBytes(cfg_percent, bytes_available) >>

\* <<min_by_bytes, min_by_percent>>
minimum_free_by_bytes_and_percent(bytes_available) ==
    << last_free_space_bytes_threshold,
       PercentOfBytes(last_free_space_percent_threshold, bytes_available) >>

\* ------------------------------------------------------------- snapshots
\* The disk reported under the path that was queried.
Disk_reports_queried_path(sv) ==
    [path |-> IF _path_for_test = "" THEN DataDirectory ELSE _path_for_test,
     free |-> sv.f_bfree * sv.f_frsize,
     total |-> sv.f_blocks * sv.f_frsize]

\* The disk computed from the block size f_bsize.
Disk_uses_bsize(sv) == [path |-> DataDirectory,
                        free |-> sv.f_bfree * sv.f_bsize,
                        total |-> sv.f_blocks * sv.f_bsize]

\* get_disks, lines 79-84: the one disk built from a reading.
Disk(sv) == [path |-> DataDirectory,
             free |-> sv.f_bfree * sv.f_frsize,
             total |-> sv.f_blocks * sv.f_frsize]

EmptyState == [disks |-> << >>, storage_space_alert |-> "ok"]

\* What a reader gets: a reference to the cached state as it is at the moment
\* of the call.  The call changes nothing and can run between any two steps
\* of the process, so what holds of it in every reachable state holds of
\* every read.
get_state_cached == _state

NoStatvfs == [f_bsize |-> 0, f_frsize |-> 0, f_blocks |-> 0, f_bfree |-> 0]

\* What a call has done: the thresholds it read, how many of the two settings
\* differed from the ones the previous cycle read, the lines it wrote
\* (info: threshold updates, err: low-space errors, dropped: low-space errors
\* the rate limiter held back), the floor it computed and the snapshot that
\* was cached when it started; the reading the probe returned (svfs) and,
\* until the call ends, how the caller's previous call ended (after).
NewCycle == [percent |-> 0, bytes |-> 0, changed |-> 0, info |-> 0, err |-> 0,
             dropped |-> 0, min_space |-> -1, entry |-> EmptyState,
             after |-> "idle", svfs |-> NoStatvfs]

\* ------------------------------------------------------------- evaluation
\* maybe_log_space_error writing through no rate limiter.
maybe_log_space_error_always(d, acc) ==
    [acc EXCEPT !.next = now + DespamInterval, !.emitted = @ + 1]

\* clusterlog.log(error, despam_interval, ...): the line is written when the
\* rate limiter lets it through (now >= _next, then _next = now + interval),
\* and counted as dropped otherwise.  acc carries the effects of the pass.
maybe_log_space_error(d, acc) ==
    IF now < acc.next
    THEN [acc EXCEPT !.dropped = @ + 1]
    ELSE [acc EXCEPT !.next = now + DespamInterval, !.emitted = @ + 1]

\* The loop body taking the larger of the two limits.
eval_disk_max(d, acc) ==
    IF d.total = 0
    THEN [acc EXCEPT !.fatal = TRUE]
    ELSE LET m == minimum_free_by_bytes_and_percent(d.total)
             min_space == IF m[2] >= m[1] THEN m[2] ELSE m[1]
         IN  IF d.free <= min_space
             THEN maybe_log_space_error(d,
                    [acc EXCEPT !.alert = "low_space", !.min_space = min_space])
             ELSE [acc EXCEPT !.min_space = min_space]

\* The loop body without its vassert.
eval_disk_no_vassert(d, acc) ==
    LET m == minimum_free_by_bytes_and_percent(d.total)
        min_space == Min(m[2], m[1])
    IN  IF d.free <= min_space
        THEN maybe_log_space_error(d,
               [acc EXCEPT !.alert = "low_space", !.min_space = min_space])
        ELSE [acc EXCEPT !.min_space = min_space]

\* The loop body raising the alert only when the error line gets through
\* the rate limiter.
eval_disk_alert_when_logged(d, acc) ==
    IF d.total = 0
    THEN [acc EXCEPT !.fatal = TRUE]
    ELSE LET m == minimum_free_by_bytes_and_percent(d.total)
             min_space == Min(m[2], m[1])
             logged == maybe_log_space_error(d, [acc EXCEPT !.min_space = min_space])
         IN  IF d.free <= min_space
             THEN IF logged.emitted > acc.emitted
                  THEN [logged EXCEPT !.alert = "low_space"]
                  ELSE logged
             ELSE [acc EXCEPT !.min_space = min_space]

\* The loop body raising the alert without the diagnostic.
eval_disk_silent(d, acc) ==
    IF d.total = 0
    THEN [acc EXCEPT !.fatal = TRUE]
    ELSE LET m == minimum_free_by_bytes_and_percent(d.total)
             min_space == Min(m[2], m[1])
         IN  IF d.free <= min_space
             THEN [acc EXCEPT !.alert = "low_space", !.min_space = min_space]
             ELSE [acc EXCEPT !.min_space = min_space]

\* One iteration of the loop of update_alert_state.
eval_disk(d, acc) ==
    IF d.total = 0
    THEN [acc EXCEPT !.fatal = TRUE]
    ELSE LET m == minimum_free_by_bytes_and_percent(d.total)
             min_space == Min(m[2], m[1])
         IN  IF d.free <= min_space
             THEN maybe_log_space_error(d,
                    [acc EXCEPT !.alert = "low_space", !.min_space = min_space])
             ELSE [acc EXCEPT !.min_space = min_space]

RECURSIVE eval_disks(_, _, _)
eval_disks(ds, i, acc) ==
    IF i > Len(ds) \/ acc.fatal THEN acc
    ELSE eval_disks(ds, i + 1, eval_disk(ds[i], acc))

\* update_alert_state that does not start from ok but from the alert cached
\* so far.
update_alert_state_keeps_alert(ds) ==
    eval_disks(ds, 1, [alert |-> _state.storage_space_alert, fatal |-> FALSE,
                       next |-> despam_next, emitted |-> 0, dropped |-> 0,
                       min_space |-> -1])

\* update_alert_state on the disks just installed: the alert, whether a
\* vassert fired, the rate limiter afterwards, the lines written and dropped
\* and the floor computed last.
update_alert_state(ds) ==
    eval_disks(ds, 1, [alert |-> "ok", fatal |-> FALSE, next |-> despam_next,
                       emitted |-> 0, dropped |-> 0, min_space |-> -1])

\* ------------------------------------------------------------- configuration
get_config_alert_threshold_bytes == cfg_bytes

get_config_alert_threshold_percent == cfg_percent

\* The number of "Updated ... threshold" lines refresh_configuration writes:
\* one for each cached threshold that differs from the configured one.
InfoLines ==
    LET percent_threshold == get_config_alert_threshold_percent
        bytes_threshold == get_config_alert_threshold_bytes
    IN  (IF last_free_space_percent_threshold # percent_threshold THEN 1 ELSE 0)
        + (IF last_free_space_bytes_threshold # bytes_threshold THEN 1 ELSE 0)

\* How many of the two settings differ from what the previous cycle read.
Changed ==
    (IF cfg_percent # seen_percent THEN 1 ELSE 0)
    + (IF cfg_bytes # seen_bytes THEN 1 ELSE 0)

\* refresh_configuration that does not store the new bytes threshold.
refresh_configuration_forgets_bytes ==
    /\ last_free_space_percent_threshold' = get_config_alert_threshold_percent
    /\ last_free_space_bytes_threshold' = last_free_space_bytes_threshold

refresh_configuration ==
    LET percent_threshold == get_config_alert_threshold_percent
        bytes_threshold == get_config_alert_threshold_bytes
    IN  /\ last_free_space_percent_threshold' =
              IF last_free_space_percent_threshold # percent_threshold
              THEN percent_threshold
              ELSE last_free_space_percent_threshold
        /\ last_free_space_bytes_threshold' =
              IF last_free_space_bytes_threshold # bytes_threshold
              THEN bytes_threshold
              ELSE last_free_space_bytes_threshold

\* ------------------------------------------------------------- actions
InFlight(t) == pc[t] \in {"statvfs", "install", "throw"}

\* The path get_disks hands to get_statvfs.
\* The probe path chosen without looking at the test override.
ProbePath_ignores_override == DataDirectory

\* get_disks, line 73: the path to query.
ProbePath == IF _path_for_test = "" THEN DataDirectory ELSE _path_for_test

\* get_statvfs with a provider injected: its answer for the path.
get_statvfs(path) == CallTestFunc(_statvfs_for_test, path)

\* update_state() up to its first suspension: refresh_configuration(), then
\* get_disks() up to the statvfs query.  An injected provider answers at
\* once, so get_disks has its vector ready; the real query is outstanding;
\* the call of an injected std::function without a target throws, the
\* exception is held by get_statvfs's future and the call stays suspended
\* until it is delivered.
update_state(t) ==
    /\ ~crashed
    /\ ~InFlight(t)
    /\ refresh_configuration
    /\ cyc' = [cyc EXCEPT ![t] =
                 [NewCycle EXCEPT !.percent = cfg_percent, !.bytes = cfg_bytes,
                                  !.changed = Changed,
                                  !.info = InfoLines,
                                  !.entry = _state,
                                  !.after = pc[t],
                                  !.svfs = IF _statvfs_for_test \in TestFuncs
                                           THEN get_statvfs(ProbePath)
                                           ELSE NoStatvfs]]
    /\ seen_percent' = cfg_percent
    /\ seen_bytes' = cfg_bytes
    /\ IF _statvfs_for_test = NoFunc
       THEN /\ disks' = [disks EXCEPT ![t] = << >>]
            /\ get_disks_path' = [get_disks_path EXCEPT ![t] = ProbePath]
            /\ pc' = [pc EXCEPT ![t] = "statvfs"]
       ELSE IF _statvfs_for_test = EmptyFunc
       THEN /\ disks' = [disks EXCEPT ![t] = << >>]
            /\ get_disks_path' = [get_disks_path EXCEPT ![t] = ""]
            /\ pc' = [pc EXCEPT ![t] = "throw"]
       ELSE /\ disks' = [disks EXCEPT ![t] = << Disk(get_statvfs(ProbePath)) >>]
            /\ get_disks_path' = [get_disks_path EXCEPT ![t] = ProbePath]
            /\ pc' = [pc EXCEPT ![t] = "install"]
    /\ UNCHANGED << cfg_percent, cfg_bytes, _state, _path_for_test,
                    _statvfs_for_test, despam_next, now, crashed,
                    last_completed, last_err >>

\* get_disks storing its reading in the cached state instead of returning it.
get_disks_writes_state(t) ==
    /\ ~crashed
    /\ pc[t] = "statvfs"
    /\ \E sv \in Statvfs :
         /\ disks' = [disks EXCEPT ![t] = << Disk(sv) >>]
         /\ cyc' = [cyc EXCEPT ![t].svfs = sv]
         /\ _state' = [_state EXCEPT !.disks = << Disk(sv) >>]
    /\ pc' = [pc EXCEPT ![t] = "install"]
    /\ UNCHANGED << cfg_percent, cfg_bytes, last_free_space_percent_threshold,
                    last_free_space_bytes_threshold, _path_for_test,
                    _statvfs_for_test, despam_next, now, crashed,
                    get_disks_path, seen_percent, seen_bytes, last_completed,
                    last_err >>

\* ss::engine().statvfs(path) answers and get_disks builds its vector.
get_disks(t) ==
    /\ ~crashed
    /\ pc[t] = "statvfs"
    /\ \E sv \in Statvfs :
         /\ disks' = [disks EXCEPT ![t] = << Disk(sv) >>]
         /\ cyc' = [cyc EXCEPT ![t].svfs = sv]
    /\ pc' = [pc EXCEPT ![t] = "install"]
    /\ UNCHANGED << cfg_percent, cfg_bytes, last_free_space_percent_threshold,
                    last_free_space_bytes_threshold, _state, _path_for_test,
                    _statvfs_for_test, despam_next, now, crashed,
                    get_disks_path, seen_percent, seen_bytes, last_completed,
                    last_err >>

\* A failing query that also drops the cached state.
get_statvfs_fails_clears(t) ==
    /\ ~crashed
    /\ pc[t] = "statvfs"
    /\ get_disks_path' = [get_disks_path EXCEPT ![t] = ""]
    /\ cyc' = [cyc EXCEPT ![t].after = "idle"]
    /\ pc' = [pc EXCEPT ![t] = "failed"]
    /\ _state' = EmptyState
    /\ UNCHANGED << cfg_percent, cfg_bytes, last_free_space_percent_threshold,
                    last_free_space_bytes_threshold, _path_for_test,
                    _statvfs_for_test, despam_next, now, crashed, disks,
                    seen_percent, seen_bytes, last_completed, last_err >>

\* The std::bad_function_call of line 89 is delivered: it leaves get_disks
\* and update_state, whose future resolves with it.
get_statvfs_throws(t) ==
    /\ ~crashed
    /\ pc[t] = "throw"
    /\ cyc' = [cyc EXCEPT ![t].after = "idle"]
    /\ pc' = [pc EXCEPT ![t] = "failed"]
    /\ UNCHANGED << cfg_percent, cfg_bytes, last_free_space_percent_threshold,
                    last_free_space_bytes_threshold, _state, _path_for_test,
                    _statvfs_for_test, despam_next, now, crashed, disks,
                    get_disks_path, seen_percent, seen_bytes, last_completed,
                    last_err >>

\* A failing query that also puts the cached thresholds back to their
\* initial values.
get_statvfs_fails_rolls_back(t) ==
    /\ ~crashed
    /\ pc[t] = "statvfs"
    /\ get_disks_path' = [get_disks_path EXCEPT ![t] = ""]
    /\ cyc' = [cyc EXCEPT ![t].after = "idle"]
    /\ pc' = [pc EXCEPT ![t] = "failed"]
    /\ last_free_space_percent_threshold' = 0
    /\ last_free_space_bytes_threshold' = 0
    /\ UNCHANGED << cfg_percent, cfg_bytes, _state, _path_for_test,
                    _statvfs_for_test, despam_next, now, crashed, disks,
                    seen_percent, seen_bytes, last_completed, last_err >>

\* ss::engine().statvfs(path) fails: the exception leaves get_statvfs,
\* get_disks and update_state, whose future resolves with it.
get_statvfs_fails(t) ==
    /\ ~crashed
    /\ pc[t] = "statvfs"
    /\ get_disks_path' = [get_disks_path EXCEPT ![t] = ""]
    /\ cyc' = [cyc EXCEPT ![t].after = "idle"]
    /\ pc' = [pc EXCEPT ![t] = "failed"]
    /\ UNCHANGED << cfg_percent, cfg_bytes, last_free_space_percent_threshold,
                    last_free_space_bytes_threshold, _state, _path_for_test,
                    _statvfs_for_test, despam_next, now, crashed, disks,
                    seen_percent, seen_bytes, last_completed, last_err >>

\* The end of update_state() appending the reading to the cached disks
\* instead of replacing them.
install_state_accumulates(t) ==
    /\ ~crashed
    /\ pc[t] = "install"
    /\ LET all == _state.disks \o disks[t]
           res == update_alert_state(all)
           new == [disks |-> all, storage_space_alert |-> res.alert]
       IN  /\ _state' = new
           /\ despam_next' = res.next
           /\ last_err' = IF res.emitted > 0 THEN now ELSE last_err
           /\ disks' = [disks EXCEPT ![t] = << >>]
           /\ get_disks_path' = [get_disks_path EXCEPT ![t] = ""]
           /\ cyc' = [cyc EXCEPT ![t].err = res.emitted,
                                 ![t].dropped = res.dropped,
                                 ![t].min_space = res.min_space,
                                 ![t].after = "idle"]
           /\ crashed' = res.fatal
           /\ pc' = [pc EXCEPT ![t] = IF res.fatal THEN "aborted" ELSE "done"]
           /\ last_completed' = IF res.fatal THEN last_completed ELSE new
    /\ UNCHANGED << cfg_percent, cfg_bytes, last_free_space_percent_threshold,
                    last_free_space_bytes_threshold, _path_for_test,
                    _statvfs_for_test, now, seen_percent, seen_bytes >>

\* update_state() after `co_await get_disks()`: _state = {.disks = disks},
\* update_alert_state(), co_return.  A failed vassert aborts the process
\* with the disks already stored and the alert already reset.
install_state(t) ==
    /\ ~crashed
    /\ pc[t] = "install"
    /\ LET res == update_alert_state(disks[t])
           new == [disks |-> disks[t], storage_space_alert |-> res.alert]
       IN  /\ _state' = new
           /\ despam_next' = res.next
           /\ last_err' = IF res.emitted > 0 THEN now ELSE last_err
           /\ disks' = [disks EXCEPT ![t] = << >>]
           /\ get_disks_path' = [get_disks_path EXCEPT ![t] = ""]
           /\ cyc' = [cyc EXCEPT ![t].err = res.emitted,
                                 ![t].dropped = res.dropped,
                                 ![t].min_space = res.min_space,
                                 ![t].after = "idle"]
           /\ crashed' = res.fatal
           /\ pc' = [pc EXCEPT ![t] = IF res.fatal THEN "aborted" ELSE "done"]
           /\ last_completed' = IF res.fatal THEN last_completed ELSE new
    /\ UNCHANGED << cfg_percent, cfg_bytes, last_free_space_percent_threshold,
                    last_free_space_bytes_threshold, _path_for_test,
                    _statvfs_for_test, now, seen_percent, seen_bytes >>

set_path_for_test(path) ==
    /\ ~crashed
    /\ _path_for_test # path
    /\ _path_for_test' = path
    /\ UNCHANGED << cfg_percent, cfg_bytes, last_free_space_percent_threshold,
                    last_free_space_bytes_threshold, _state, _statvfs_for_test,
                    despam_next, now, crashed, pc, disks, get_disks_path, cyc,
                    seen_percent, seen_bytes, last_completed, last_err >>

set_statvfs_for_test(func) ==
    /\ ~crashed
    /\ _statvfs_for_test # func
    /\ _statvfs_for_test' = func
    /\ UNCHANGED << cfg_percent, cfg_bytes, last_free_space_percent_threshold,
                    last_free_space_bytes_threshold, _state, _path_for_test,
                    despam_next, now, crashed, pc, disks, get_disks_path, cyc,
                    seen_percent, seen_bytes, last_completed, last_err >>

\* The configuration provider reloads the two settings.
ConfigChange(p, b) ==
    /\ ~crashed
    /\ << p, b >> # << cfg_percent, cfg_bytes >>
    /\ cfg_percent' = p
    /\ cfg_bytes' = b
    /\ UNCHANGED << last_free_space_percent_threshold,
                    last_free_space_bytes_threshold, _state, _path_for_test,
                    _statvfs_for_test, despam_next, now, crashed, pc, disks,
                    get_disks_path, cyc, seen_percent, seen_bytes,
                    last_completed, last_err >>

Tick ==
    /\ ~crashed
    /\ now < MaxTime
    /\ now' = now + 1
    /\ UNCHANGED << cfg_percent, cfg_bytes, last_free_space_percent_threshold,
                    last_free_space_bytes_threshold, _state, _path_for_test,
                    _statvfs_for_test, despam_next, crashed, pc, disks,
                    get_disks_path, cyc, seen_percent, seen_bytes,
                    last_completed, last_err >>

\* ------------------------------------------------------------- specification
\* The monitor as constructed: no snapshot yet (no disks, alert ok), cached
\* thresholds 0 until the first refresh_configuration, no test seam set, the
\* rate limiter open from the time of construction (time 0).
Init ==
    /\ cfg_percent \in Percents
    /\ cfg_bytes \in Bytes
    /\ last_free_space_percent_threshold = 0
    /\ last_free_space_bytes_threshold = 0
    /\ _state = EmptyState
    /\ _path_for_test = ""
    /\ _statvfs_for_test = NoFunc
    /\ despam_next = 0
    /\ now = 0
    /\ crashed = FALSE
    /\ pc = [t \in Tasks |-> "idle"]
    /\ disks = [t \in Tasks |-> << >>]
    /\ get_disks_path = [t \in Tasks |-> ""]
    /\ cyc = [t \in Tasks |-> NewCycle]
    /\ seen_percent = 0
    /\ seen_bytes = 0
    /\ last_completed = EmptyState
    /\ last_err = -1

Environment ==
    \/ \E p \in Percents, b \in Bytes : ConfigChange(p, b)
    \/ Tick
    \/ \E path \in {"", TestPath} : set_path_for_test(path)
    \/ \E func \in TestFuncs \cup {EmptyFunc} : set_statvfs_for_test(func)

\* Cycles one at a time, as the caller is required to run them.
Next ==
    \/ \E t \in SerialTasks : update_state(t)
    \/ \E t \in SerialTasks : get_disks(t)
    \/ \E t \in SerialTasks : get_statvfs_fails(t)
    \/ \E t \in SerialTasks : get_statvfs_throws(t)
    \/ \E t \in SerialTasks : install_state(t)
    \/ Environment

Spec == Init /\ [][Next]_vars

\* ---------------------------------------------------- overlapping cycles
\* Nothing in update_state keeps a second call from starting while the first
\* one is suspended in its query.  Two callers make one call each, in any
\* interleaving; the configuration is reloaded and the clock advances at any
\* time.
FirstCall(t) == pc[t] = "idle" /\ update_state(t)

NextOverlap ==
    \/ \E t \in Tasks : FirstCall(t)
    \/ \E t \in Tasks : get_disks(t)
    \/ \E t \in Tasks : get_statvfs_fails(t)
    \/ \E t \in Tasks : install_state(t)
    \/ \E p \in Percents, b \in Bytes : ConfigChange(p, b)
    \/ Tick

SpecOverlap == Init /\ [][NextOverlap]_vars



\* ------------------------------------------------------------- properties
Alert == get_state_cached.storage_space_alert

CachedDisks == {get_state_cached.disks[i] : i \in DOMAIN get_state_cached.disks}

\* free <= min(p/100 x total, b), in exact arithmetic.
AtOrBelowFloor(d, p, b) == 100 * d.free <= p * d.total /\ d.free <= b

\* free <= the floor update_alert_state computes from thresholds p and b.
AtOrBelowComputedFloor(d, p, b) == d.free <= Min(PercentOfBytes(p, d.total), b)

\* C1: after every completed update_state() the cached alert is low_space
\* exactly when some cached disk has free <= min(percent/100 x total, bytes),
\* with the thresholds that cycle read; free equal to the floor is low_space.
C1_AlertIffAtOrBelowFloor ==
    \A t \in Tasks :
        pc[t] = "done" =>
            (Alert = "low_space"
             <=> \E d \in CachedDisks :
                     AtOrBelowFloor(d, cyc[t].percent, cyc[t].bytes))

\* C2: the floor the evaluator uses is min(p/100 x total, b): the smaller of
\* the percent share of the capacity (in whole bytes) and the byte threshold.
C2_FloorIsMinOfShareAndBytes ==
    \A t \in Tasks :
        pc[t] = "done" =>
            \A d \in CachedDisks :
                cyc[t].min_space
                  = Min((cyc[t].percent * d.total) \div 100, cyc[t].bytes)

\* C3 as claimed: a disk at or below percent% of its capacity, or at or below
\* the byte threshold, makes the completed cycle's alert low_space.
C3_EitherLimitRaisesAlert ==
    \A t \in Tasks :
        pc[t] = "done" =>
            \A d \in CachedDisks :
                (100 * d.free <= cyc[t].percent * d.total \/ d.free <= cyc[t].bytes)
                    => Alert = "low_space"

\* C3 as amended: the lower of the two limits decides.  A completed cycle's
\* alert is low_space only if some disk is at or below percent% of its
\* capacity and also at or below the byte threshold; disks that are above
\* either limit leave it ok.
C3_BothLimitsNeeded ==
    \A t \in Tasks :
        pc[t] = "done" /\ Alert = "low_space" =>
            \E d \in CachedDisks :
                /\ 100 * d.free <= cyc[t].percent * d.total
                /\ d.free <= cyc[t].bytes

\* A cycle has completed with alert ok on a disk at or below the byte
\* threshold (and above the percent share).
C3_Witness ==
    /\ pc[1] = "done"
    /\ Alert = "ok"
    /\ \E d \in CachedDisks :
         /\ d.free <= cyc[1].bytes
         /\ 100 * d.free > cyc[1].percent * d.total

\* C4: when the statvfs query of an update_state() fails, the call ends with
\* the error and the cached state is the one that was cached when the call
\* started.
C4_ProbeFailureKeepsSnapshot ==
    \A t \in Tasks : pc[t] = "failed" => get_state_cached = cyc[t].entry

\* A call has failed after an earlier cycle cached a low_space snapshot and
\* after its own refresh_configuration changed the cached thresholds.
C4_Witness ==
    /\ pc[1] = "failed"
    /\ Alert = "low_space"
    /\ cyc[1].info > 0

\* C5: a reader at any point, also between the steps of a cycle in progress,
\* gets the snapshot of the last completed cycle: until a cycle completes
\* the cached state is untouched, disks and alert.
C5_ReadersGetLastCompletedSnapshot ==
    ~crashed =>
        /\ get_state_cached = last_completed
        /\ \A t \in Tasks : InFlight(t) => get_state_cached = cyc[t].entry

\* A cycle holds a reading it has not installed yet, while the cached state
\* is an earlier cycle's.
C5_Witness ==
    /\ pc[1] = "install"
    /\ CachedDisks # {}
    /\ disks[1] # get_state_cached.disks

\* C6: error lines for low space are at least one despam interval apart,
\* however many cycles find the disk low: a cycle writes at most one, and
\* none while the previous one is less than an interval old.
C6_AtMostOneErrorLinePerInterval ==
    [][\A t \in Tasks :
          (pc[t] = "install" /\ pc'[t] # "install" /\ cyc'[t].err > 0)
              => /\ cyc'[t].err = 1
                 /\ last_err = -1 \/ now >= last_err + DespamInterval]_vars

\* A cycle found the disk low again within the interval of the last error
\* line and wrote nothing.
C6_Witness ==
    /\ pc[1] = "done"
    /\ Alert = "low_space"
    /\ cyc[1].entry.storage_space_alert = "low_space"
    /\ cyc[1].err = 0
    /\ cyc[1].dropped = 1
    /\ last_err >= 0

\* C7 as claimed: a cycle that follows a change of the configured thresholds
\* writes exactly one transition line, a cycle without a change none.
C7_OneTransitionLine ==
    \A t \in Tasks :
        (pc[t] # "idle" /\ cyc[t].entry # EmptyState) =>
            cyc[t].info = (IF cyc[t].changed > 0 THEN 1 ELSE 0)

\* C7 as amended: a cycle writes one transition line for each of the two
\* settings that differs from what the previous cycle read (two lines when
\* both changed), so none when the configuration is unchanged; the cached
\* thresholds are the new values from then on and the cycle's own evaluation
\* uses them.
C7_OneLinePerChangedSetting ==
    \A t \in Tasks :
        /\ pc[t] # "idle" => cyc[t].info = cyc[t].changed
        /\ pc[t] = "done" =>
              /\ last_free_space_percent_threshold = cyc[t].percent
              /\ last_free_space_bytes_threshold = cyc[t].bytes
              /\ Alert = "low_space"
                   <=> \E d \in CachedDisks :
                          AtOrBelowComputedFloor(d, cyc[t].percent, cyc[t].bytes)

\* A cycle after a completed one found both settings changed, wrote two
\* lines and completed.
C7_Witness ==
    /\ pc[1] = "done"
    /\ cyc[1].entry # EmptyState
    /\ cyc[1].changed = 2
    /\ cyc[1].info = 2

\* C8: a reading with total = 0 is fatal.  No cycle completes with such a
\* disk, and while the process lives the cached state holds none: the state
\* with a zero-capacity disk and alert ok exists only in the aborted process.
C8_ZeroTotalIsFatal ==
    /\ \A t \in Tasks :
          pc[t] = "done" => \A d \in CachedDisks : d.total # 0
    /\ ~crashed => \A d \in CachedDisks : d.total # 0
    /\ crashed <=> \E t \in Tasks : pc[t] = "aborted"

\* The vassert has fired on a zero-capacity reading.
C8_Witness ==
    /\ crashed
    /\ pc[1] = "aborted"
    /\ \E d \in CachedDisks : d.total = 0

\* C9: a cycle that starts from a cached low_space and completes with every
\* disk above its floor caches ok and writes no error line (nor asks the
\* rate limiter for one).
C9_RecoveryIsImmediateAndSilent ==
    \A t \in Tasks :
        (/\ pc[t] = "done"
         /\ cyc[t].entry.storage_space_alert = "low_space"
         /\ \A d \in CachedDisks :
               ~AtOrBelowFloor(d, cyc[t].percent, cyc[t].bytes))
            => /\ Alert = "ok"
               /\ cyc[t].err = 0
               /\ cyc[t].dropped = 0

\* A cycle has taken the cached alert from low_space to ok.
C9_Witness ==
    /\ pc[1] = "done"
    /\ cyc[1].entry.storage_space_alert = "low_space"
    /\ CachedDisks # {}
    /\ Alert = "ok"

C12_RepeatedCallChangesNothing ==
    [][\A t \in Tasks :
          (/\ pc[t] = "install" /\ pc'[t] = "done"
           /\ cyc[t].after = "done"
           /\ cyc[t].changed = 0
           /\ disks[t] = cyc[t].entry.disks)
              => /\ _state' = cyc[t].entry
                 /\ cyc'[t].info = 0
                 /\ (last_err # -1 /\ now < last_err + DespamInterval)
                       => cyc'[t].err = 0]_vars

\* A call found the thresholds and the disk of the cached low_space snapshot
\* unchanged, within the interval of the last error line: the snapshot is the
\* same and nothing was written.
C12_Witness ==
    /\ pc[1] = "done"
    /\ cyc[1].changed = 0
    /\ cyc[1].info = 0
    /\ cyc[1].entry # EmptyState
    /\ get_state_cached = cyc[1].entry
    /\ Alert = "low_space"
    /\ cyc[1].err = 0
    /\ cyc[1].dropped = 1
    /\ last_err >= 0
    /\ now < last_err + DespamInterval

\* The path a cycle that starts now has to query: the test path when one is
\* set, the data directory otherwise.
SelectedPath == IF _path_for_test # "" THEN _path_for_test ELSE DataDirectory

\* C13: a cycle queries the test path when a non-empty one is set and the
\* data directory otherwise; with a stat provider injected the cycle's reading
\* is what that function returns for the selected path and the real
\* filesystem query is never issued (a std::function without a target,
\* injected as provider, makes the cycle fail with nothing queried); with
\* nothing injected the real query is issued for the selected path.
C13_TestSeamsSelectPathAndProvider ==
    [][\A t \in Tasks :
          /\ (~InFlight(t) /\ InFlight(t)') =>
                IF _statvfs_for_test = NoFunc
                THEN /\ pc'[t] = "statvfs"
                     /\ get_disks_path'[t] = SelectedPath
                     /\ disks'[t] = << >>
                     /\ cyc'[t].svfs = NoStatvfs
                ELSE IF _statvfs_for_test \in TestFuncs
                THEN /\ pc'[t] = "install"
                     /\ get_disks_path'[t] = SelectedPath
                     /\ cyc'[t].svfs = CallTestFunc(_statvfs_for_test, SelectedPath)
                     /\ Len(disks'[t]) = 1
                     /\ disks'[t][1].free = cyc'[t].svfs.f_bfree * cyc'[t].svfs.f_frsize
                     /\ disks'[t][1].total = cyc'[t].svfs.f_blocks * cyc'[t].svfs.f_frsize
                ELSE /\ pc'[t] = "throw"
                     /\ get_disks_path'[t] = ""
                     /\ disks'[t] = << >>
                     /\ cyc'[t].svfs = NoStatvfs
          /\ (_statvfs_for_test # NoFunc /\ pc[t] # "statvfs") => pc'[t] # "statvfs"
          /\ pc[t] = "throw" =>
                /\ pc'[t] \in {"throw", "failed"}
                /\ disks'[t] = << >>
                /\ get_disks_path'[t] = ""]_vars

\* A cycle started with both seams set: it holds the reading the injected
\* function gives for the test path, without a filesystem query.
C13_Witness ==
    /\ pc[1] = "install"
    /\ _path_for_test = TestPath
    /\ _statvfs_for_test \in TestFuncs
    /\ get_disks_path[1] = TestPath
    /\ cyc[1].svfs = CallTestFunc(_statvfs_for_test, TestPath)
    /\ cyc[1].svfs # CallTestFunc(_statvfs_for_test, DataDirectory)
    /\ Len(disks[1]) = 1
    /\ disks[1][1].free = cyc[1].svfs.f_bfree * cyc[1].svfs.f_frsize

\* C14: the disk built from a reading, and the disk of the snapshot a
\* completed cycle caches, has free = f_bfree * f_frsize and
\* total = f_blocks * f_frsize (products that fit in 64 bits).
C14_CapacityIsBlocksTimesFragmentSize ==
    \A t \in Tasks :
        /\ pc[t] = "install" =>
              /\ Len(disks[t]) = 1
              /\ disks[t][1].free = cyc[t].svfs.f_bfree * cyc[t].svfs.f_frsize
              /\ disks[t][1].total = cyc[t].svfs.f_blocks * cyc[t].svfs.f_frsize
        /\ pc[t] \in {"done", "aborted"} =>
              /\ Len(get_state_cached.disks) = 1
              /\ get_state_cached.disks[1].free =
                    cyc[t].svfs.f_bfree * cyc[t].svfs.f_frsize
              /\ get_state_cached.disks[1].total =
                    cyc[t].svfs.f_blocks * cyc[t].svfs.f_frsize

\* A completed cycle whose reading had a block size other than the fragment
\* size: the cached disk holds the products with the fragment size.
C14_Witness ==
    /\ pc[1] = "done"
    /\ cyc[1].svfs.f_bsize # cyc[1].svfs.f_frsize
    /\ cyc[1].svfs.f_blocks > 0
    /\ cyc[1].svfs.f_bfree > 0
    /\ get_state_cached.disks[1].free = cyc[1].svfs.f_bfree * cyc[1].svfs.f_frsize
    /\ get_state_cached.disks[1].free # cyc[1].svfs.f_bfree * cyc[1].svfs.f_bsize
    /\ get_state_cached.disks[1].total = cyc[1].svfs.f_blocks * cyc[1].svfs.f_frsize

\* C15: with overlapping calls, the cached snapshot is consistent wherever
\* another task can run: _state changes only in the step that assigns the
\* disks and evaluates them, and after that step the alert is low_space
\* exactly if one of the snapshot's disks has free <= floor, the floor being
\* min(percent% of total, bytes) for the thresholds cached at that moment.
C15_SnapshotConsistentUnderOverlap ==
    [][/\ \A t \in Tasks :
            (pc[t] = "install" /\ pc'[t] = "done") =>
                (_state'.storage_space_alert = "low_space"
                   <=> \E i \in DOMAIN _state'.disks :
                          AtOrBelowFloor(_state'.disks[i],
                                         last_free_space_percent_threshold,
                                         last_free_space_bytes_threshold))
       /\ _state' # _state =>
            \E t \in Tasks : /\ pc[t] = "install"
                             /\ pc'[t] \in {"done", "aborted"}
                             /\ _state'.disks = disks[t]]_vars

\* The same with the floor as the evaluator computes it: the snapshot a
\* call installs agrees with the thresholds cached when it is installed, also
\* when these were refreshed by another call after this one read its own.
OverlapSnapshotUsesCacheAtInstall ==
    [][/\ \A t \in Tasks :
            (pc[t] = "install" /\ pc'[t] = "done") =>
                (_state'.storage_space_alert = "low_space"
                   <=> \E i \in DOMAIN _state'.disks :
                          AtOrBelowComputedFloor(_state'.disks[i],
                                                 last_free_space_percent_threshold,
                                                 last_free_space_bytes_threshold))
       /\ _state' # _state =>
            \E t \in Tasks : /\ pc[t] = "install"
                             /\ pc'[t] \in {"done", "aborted"}
                             /\ _state'.disks = disks[t]]_vars

\* A call installed its snapshot under thresholds another call had cached
\* after this one read its own.
OverlapWitness ==
    /\ pc[1] = "done"
    /\ pc[2] # "idle"
    /\ get_state_cached.disks # << >>
    /\ cyc[1].percent # last_free_space_percent_threshold
    /\ cyc[2].percent = last_free_space_percent_threshold
    /\ Alert = "low_space"
    /\ ~ \E d \in CachedDisks : AtOrBelowComputedFloor(d, cyc[1].percent, cyc[1].bytes)

\* How many of the two configured settings differ from the cached thresholds.
StaleSettings ==
    (IF cfg_percent # last_free_space_percent_threshold THEN 1 ELSE 0)
    + (IF cfg_bytes # last_free_space_bytes_threshold THEN 1 ELSE 0)

\* C16: with cycles one at a time, a cycle evaluates with the thresholds it
\* read from the configuration when it started: while it is suspended a
\* configuration change leaves the cached thresholds and the cycle's log lines
\* as they are, and the alert it installs is the one of the thresholds read at
\* its start; the next cycle to start reads the new values, writes a line for
\* each setting that differs from the cache and caches them.
C16_CycleUsesThresholdsReadAtItsStart ==
    [][\A t \in Tasks :
          /\ InFlight(t) =>
                /\ last_free_space_percent_threshold' = cyc[t].percent
                /\ last_free_space_bytes_threshold' = cyc[t].bytes
                /\ cyc'[t].info = cyc[t].info
                /\ pc'[t] = "done" =>
                      (_state'.storage_space_alert = "low_space"
                         <=> \E i \in DOMAIN _state'.disks :
                                AtOrBelowComputedFloor(_state'.disks[i],
                                                       cyc[t].percent, cyc[t].bytes))
          /\ (~InFlight(t) /\ InFlight(t)') =>
                /\ cyc'[t].percent = cfg_percent
                /\ cyc'[t].bytes = cfg_bytes
                /\ cyc'[t].info = StaleSettings
                /\ last_free_space_percent_threshold' = cfg_percent
                /\ last_free_space_bytes_threshold' = cfg_bytes]_vars

\* The configuration changed while a cycle was suspended in its query, the
\* reading is back, and the disk is low under the thresholds the cycle read
\* but not under the new ones (or the other way round).
C16_Witness ==
    /\ pc[1] = "install"
    /\ Len(disks[1]) = 1
    /\ disks[1][1].total > 0
    /\ << cfg_percent, cfg_bytes >> # << cyc[1].percent, cyc[1].bytes >>
    /\ last_free_space_percent_threshold = cyc[1].percent
    /\ last_free_space_bytes_threshold = cyc[1].bytes
    /\ AtOrBelowComputedFloor(disks[1][1], cyc[1].percent, cyc[1].bytes)
         # AtOrBelowComputedFloor(disks[1][1], cfg_percent, cfg_bytes)

\* C17: a failed probe does not undo the refresh of the thresholds.  When the
\* query of a cycle fails (or its injected provider throws), the cached thresholds are the ones that cycle read
\* and its threshold lines stay written, while the cached snapshot is the one
\* from before the cycle and stays so until a later cycle completes; the next
\* cycle, started with the configuration unchanged, writes no threshold line
\* and, when it completes, has evaluated with those thresholds.
C17_FailedProbeKeepsRefreshedThresholds ==
    [][\A t \in Tasks :
          /\ (pc[t] \in {"statvfs", "throw"} /\ pc'[t] = "failed") =>
                /\ last_free_space_percent_threshold' = cyc[t].percent
                /\ last_free_space_bytes_threshold' = cyc[t].bytes
                /\ cyc'[t].info = cyc[t].changed
                /\ _state' = cyc[t].entry
          /\ pc[t] = "failed" => _state' = _state
          /\ (pc[t] = "failed" /\ InFlight(t)'
                /\ cfg_percent = cyc[t].percent /\ cfg_bytes = cyc[t].bytes) =>
                /\ cyc'[t].info = 0
                /\ cyc'[t].after = "failed"
                /\ last_free_space_percent_threshold' = cyc[t].percent
                /\ last_free_space_bytes_threshold' = cyc[t].bytes
          /\ (pc[t] = "install" /\ pc'[t] = "done"
                /\ cyc[t].after = "failed" /\ cyc[t].changed = 0) =>
                (_state'.storage_space_alert = "low_space"
                   <=> \E i \in DOMAIN _state'.disks :
                          AtOrBelowComputedFloor(_state'.disks[i],
                                                 last_free_space_percent_threshold,
                                                 last_free_space_bytes_threshold))]_vars

\* A cycle that follows a failed one, with the configuration as the failed
\* one read it, has its reading and wrote no threshold line; the cached
\* snapshot is still the one from before the failure, evaluated under other
\* thresholds than the cached ones.
C17_Witness ==
    /\ pc[1] = "install"
    /\ cyc[1].after = "failed"
    /\ cyc[1].changed = 0
    /\ cyc[1].info = 0
    /\ cyc[1].entry # EmptyState
    /\ get_state_cached = cyc[1].entry
    /\ last_free_space_percent_threshold = cfg_percent
    /\ last_free_space_bytes_threshold = cfg_bytes
    /\ (Alert = "low_space")
         # (\E d \in CachedDisks :
               AtOrBelowComputedFloor(d, last_free_space_percent_threshold,
                                      last_free_space_bytes_threshold))
    /\ Len(disks[1]) = 1
    /\ disks[1][1].total > 0

\* C18: the path of a disk, in the reading a cycle holds and in the cached
\* snapshot, is always the configured data directory, whatever path was
\* queried: the test path changes where the probe looks, not what is reported.
C18_ReportedPathIsDataDirectory ==
    /\ \A d \in CachedDisks : d.path = DataDirectory
    /\ \A t \in Tasks : \A i \in DOMAIN disks[t] : disks[t][i].path = DataDirectory

\* A cycle queried the test path through the filesystem and holds a disk
\* reported under the data directory.
C18_Witness ==
    /\ pc[1] = "install"
    /\ get_disks_path[1] = TestPath
    /\ get_disks_path[1] # DataDirectory
    /\ cyc[1].svfs \in Statvfs
    /\ Len(disks[1]) = 1
    /\ disks[1][1].path = DataDirectory

\* C19: the cached snapshot never holds more than one disk; it holds none
\* only while it is the initial snapshot and no cycle has completed, and
\* exactly one from the first completed cycle on; a cycle never holds more
\* than the one reading of its single probe.
C19_ExactlyOneDiskOnceRefreshed ==
    /\ Len(get_state_cached.disks) <= 1
    /\ Len(get_state_cached.disks) = 0 =>
          /\ get_state_cached = EmptyState
          /\ last_completed = EmptyState
          /\ \A t \in Tasks : pc[t] \notin {"done", "aborted"}
    /\ last_completed # EmptyState => Len(get_state_cached.disks) = 1
    /\ \A t \in Tasks :
          /\ Len(disks[t]) <= 1
          /\ pc[t] \in {"done", "aborted"} => Len(get_state_cached.disks) = 1
          /\ pc[t] = "install" <=> Len(disks[t]) = 1

\* A second cycle completed with another reading than the first: the cached
\* list holds the new disk alone.
C19_Witness ==
    /\ pc[1] = "done"
    /\ Len(cyc[1].entry.disks) = 1
    /\ Len(get_state_cached.disks) = 1
    /\ get_state_cached.disks # cyc[1].entry.disks

=============================================================================
